---- MODULE Spec2Model ----
(***************************************************************************)
(* A model of act/utils/graph_datamodel.py: the DataModel class (load,     *)
(* the objects and facts generator properties, __eq__) and run(), the      *)
(* fetch / change-detection / graph-projection pipeline.                   *)
(*                                                                         *)
(* JSON values are modelled by their shape.  Python's None is the value    *)
(* None below; a name is a string.  A decoded catalog payload is a record  *)
(* [avail, data]: avail = FALSE is the attribute holding None.             *)
(***************************************************************************)
EXTENDS Integers, Sequences, FiniteSets, TLC

\* ------------------------------------------------------------------------
\* Bounds of the input domains.
\* ------------------------------------------------------------------------
MaxObjs == 3
MaxGraphObjs == 2
MaxSize == 4
MaxEqObjs == 2
MaxEqFacts == 2
MaxRuns == 2

\* ------------------------------------------------------------------------
\* Values.
\* ------------------------------------------------------------------------
None == "None"

\* bool(v) is False for None and for the empty string.
Falsy(v) == v = None \/ v = ""

HTTP_OK == 200

StatusNone == 0

\* self._objects / self._facts holding None.
Unavailable == [avail |-> FALSE, data |-> <<>>]

\* The result of r.json(): a dict with a top-level "data" list.
Payload(data) == [avail |-> TRUE, data |-> data]

\* An object-type entry of the "data" list: JSON null, or a dict with the
\* given keys; name is the value under "name" when that key is present.
NullEntry == [null |-> TRUE, keys |-> {}, name |-> None]
EmptyEntry == [null |-> FALSE, keys |-> {}, name |-> None]
Named(n) == [null |-> FALSE, keys |-> {"name"}, name |-> n]
Nameless == [null |-> FALSE, keys |-> {"id"}, name |-> None]

\* `not obj` for an entry: None and the empty dict are falsy.
NotEntry(obj) == obj.null \/ obj.keys = {}

\* A fact-type entry: JSON null (or empty), or a dict with "name" and
\* "relevantObjectBindings".
NullFact == [null |-> TRUE, name |-> None, relevantObjectBindings |-> <<>>]
Fact(n, bs) == [null |-> FALSE, name |-> n, relevantObjectBindings |-> bs]

\* A binding record.  destinationObjectType is null or a dict with a name.
NullType == [null |-> TRUE, name |-> None]
Type(n) == [null |-> FALSE, name |-> n]
Binding(s, d, bi) ==
  [sourceObjectType |-> Type(s), destinationObjectType |-> d, bidirectionalBinding |-> bi]

\* All sequences over S of length at most n.
SeqsUpTo(S, n) == UNION {[1..k -> S] : k \in 0..n}

\* set(iterable): the elements inserted one by one.
RECURSIVE PySetFrom(_, _, _)
PySetFrom(s, i, acc) ==
  IF i > Len(s) THEN acc ELSE PySetFrom(s, i + 1, acc \cup {s[i]})

PySet(s) == PySetFrom(s, 1, {})

\* ------------------------------------------------------------------------
\* class DataModel
\* ------------------------------------------------------------------------

\* __init__: no status, no payloads.
NewDataModel == [status |-> StatusNone, _objects |-> Unavailable, _facts |-> Unavailable]

\* load() that forgets to drop the object payload when the factType request fails.
load_KeepObjects(self, r1, r2) ==
  IF r1.status_code = HTTP_OK
  THEN LET s1 == [self EXCEPT !._objects = r1.json] IN
       IF r2.status_code = HTTP_OK
       THEN [dm |-> [s1 EXCEPT !._facts = r2.json, !.status = r2.status_code],
             calls |-> <<"objectType", "factType">>]
       ELSE [dm |-> [s1 EXCEPT !._facts = Unavailable, !.status = r2.status_code],
             calls |-> <<"objectType", "factType">>]
  ELSE [dm |-> [self EXCEPT !._objects = Unavailable, !._facts = Unavailable,
                            !.status = r1.status_code],
        calls |-> <<"objectType">>]

\* load(): r1 is the response the objectType request gets, r2 the response the
\* factType request gets if it is made.  calls lists the requests made.
load(self, r1, r2) ==
  IF r1.status_code = HTTP_OK
  THEN LET s1 == [self EXCEPT !._objects = r1.json] IN
       IF r2.status_code = HTTP_OK
       THEN [dm |-> [s1 EXCEPT !._facts = r2.json, !.status = r2.status_code],
             calls |-> <<"objectType", "factType">>]
       ELSE [dm |-> [s1 EXCEPT !._objects = Unavailable, !._facts = Unavailable,
                               !.status = r2.status_code],
             calls |-> <<"objectType", "factType">>]
  ELSE [dm |-> [self EXCEPT !._objects = Unavailable, !._facts = Unavailable,
                            !.status = r1.status_code],
        calls |-> <<"objectType">>]

\* The objects generator skipping an entry whose name is falsy.
RECURSIVE objectsFrom_SkipFalsyName(_, _, _)
objectsFrom_SkipFalsyName(data, i, out) ==
  IF i > Len(data) THEN [out |-> out, raised |-> FALSE]
  ELSE LET obj == data[i] IN
       IF NotEntry(obj) THEN objectsFrom_SkipFalsyName(data, i + 1, out)
       ELSE IF "name" \notin obj.keys THEN [out |-> out, raised |-> TRUE]
       ELSE IF Falsy(obj.name) THEN objectsFrom_SkipFalsyName(data, i + 1, out)
       ELSE objectsFrom_SkipFalsyName(data, i + 1, Append(out, obj.name))

\* The objects generator, run to its end: out is what it yielded, raised
\* tells whether it ended with an exception (KeyError on obj["name"]).
RECURSIVE objectsFrom(_, _, _)
objectsFrom(data, i, out) ==
  IF i > Len(data) THEN [out |-> out, raised |-> FALSE]
  ELSE LET obj == data[i] IN
       IF NotEntry(obj) THEN objectsFrom(data, i + 1, out)
       ELSE IF "name" \notin obj.keys THEN [out |-> out, raised |-> TRUE]
       ELSE objectsFrom(data, i + 1, Append(out, obj.name))

objects(self) ==
  IF ~self._objects.avail THEN [out |-> <<>>, raised |-> FALSE]
  ELSE objectsFrom(self._objects.data, 1, <<>>)

\* The tuples one fact entry yields, one per binding.
RECURSIVE bindingsFrom(_, _, _)
bindingsFrom(fact, j, out) ==
  LET bindings == fact.relevantObjectBindings IN
  IF j > Len(bindings) THEN out
  ELSE LET binding == bindings[j] IN
       bindingsFrom(fact, j + 1,
         Append(out, <<fact.name,
                       binding.sourceObjectType.name,
                       IF ~binding.destinationObjectType.null
                       THEN binding.destinationObjectType.name ELSE None,
                       binding.bidirectionalBinding>>))

\* The facts generator ending at the first fact without bindings.
RECURSIVE factsFrom_Break(_, _, _)
factsFrom_Break(data, i, out) ==
  IF i > Len(data) THEN out
  ELSE LET fact == data[i] IN
       IF fact.null THEN factsFrom_Break(data, i + 1, out)
       ELSE IF fact.relevantObjectBindings = <<>> THEN out
       ELSE factsFrom_Break(data, i + 1, bindingsFrom(fact, 1, out))

\* The facts generator, run to its end.
RECURSIVE factsFrom(_, _, _)
factsFrom(data, i, out) ==
  IF i > Len(data) THEN out
  ELSE LET fact == data[i] IN
       IF fact.null THEN factsFrom(data, i + 1, out)
       ELSE IF fact.relevantObjectBindings = <<>> THEN factsFrom(data, i + 1, out)
       ELSE factsFrom(data, i + 1, bindingsFrom(fact, 1, out))

facts(self) ==
  IF ~self._facts.avail THEN <<>> ELSE factsFrom(self._facts.data, 1, <<>>)

\* __eq__ comparing the listings themselves.
DataModel_eq_Lists(self, other) ==
  /\ objects(self).out = objects(other).out
  /\ facts(self) = facts(other)

\* __eq__
DataModel_eq(self, other) ==
  /\ PySet(objects(self).out) = PySet(objects(other).out)
  /\ PySet(facts(self)) = PySet(facts(other))

\* ------------------------------------------------------------------------
\* graphviz.Digraph: the body is the list of statements added so far.
\* ------------------------------------------------------------------------
Digraph == <<>>

\* dot.node(name, label, shape=...); without a shape the engine's default.
node(dot, name, label, shape) ==
  Append(dot, [kind |-> "node", name |-> name, label |-> label, shape |-> shape,
               tail |-> None, head |-> None, dir |-> None])

\* dot.edge(tail, head, label=..., dir=...); a Digraph edge without dir is
\* drawn forward, without label it carries none.
edge(dot, tail, head, label, dir) ==
  Append(dot, [kind |-> "edge", name |-> None, label |-> label, shape |-> None,
               tail |-> tail, head |-> head, dir |-> dir])

\* The double-edge loop without its "mentions" test.
RECURSIVE DoubleEdgeFrom_KeepMentions(_, _, _)
DoubleEdgeFrom_KeepMentions(fs, i, dot) ==
  IF i > Len(fs) THEN dot
  ELSE LET name == fs[i][1]
           s == fs[i][2]
           d == fs[i][3]
           di == fs[i][4]
       IN IF Falsy(d) THEN DoubleEdgeFrom_KeepMentions(fs, i + 1, dot)
          ELSE DoubleEdgeFrom_KeepMentions(fs, i + 1,
                 edge(node(node(dot, s, s, "ellipse"), d, d, "ellipse"),
                      s, d, name, IF di THEN "both" ELSE "forward"))

\* "Double edge facts": the loop over dm.facts.
RECURSIVE DoubleEdgeFrom(_, _, _)
DoubleEdgeFrom(fs, i, dot) ==
  IF i > Len(fs) THEN dot
  ELSE LET name == fs[i][1]
           s == fs[i][2]
           d == fs[i][3]
           di == fs[i][4]
       IN IF name = "mentions" THEN DoubleEdgeFrom(fs, i + 1, dot)
          ELSE IF Falsy(d) THEN DoubleEdgeFrom(fs, i + 1, dot)
          ELSE DoubleEdgeFrom(fs, i + 1,
                 edge(node(node(dot, s, s, "ellipse"), d, d, "ellipse"),
                      s, d, name, IF di THEN "both" ELSE "forward"))

\* The single-edge loop without its destination test.
RECURSIVE SingleEdgeFrom_All(_, _, _)
SingleEdgeFrom_All(fs, i, dot) ==
  IF i > Len(fs) THEN dot
  ELSE LET name == fs[i][1]
           s == fs[i][2]
       IN SingleEdgeFrom_All(fs, i + 1,
            edge(node(node(dot, name, name, "diamond"), s, s, "ellipse"),
                 s, name, None, "forward"))

\* "Single edge facts": the loop over dm.facts.
RECURSIVE SingleEdgeFrom(_, _, _)
SingleEdgeFrom(fs, i, dot) ==
  IF i > Len(fs) THEN dot
  ELSE LET name == fs[i][1]
           s == fs[i][2]
           d == fs[i][3]
       IN IF ~Falsy(d) THEN SingleEdgeFrom(fs, i + 1, dot)
          ELSE SingleEdgeFrom(fs, i + 1,
                 edge(node(node(dot, name, name, "diamond"), s, s, "ellipse"),
                      s, name, None, "forward"))

\* "All Double edge facts": the loop over dm.objects ...
RECURSIVE CompleteNodesFrom(_, _, _)
CompleteNodesFrom(os, i, dot) ==
  IF i > Len(os) THEN dot
  ELSE CompleteNodesFrom(os, i + 1, node(dot, os[i], os[i], "ellipse"))

\* The complete loop with the "mentions" test of the double-edge loop.
RECURSIVE CompleteEdgesFrom_SkipMentions(_, _, _)
CompleteEdgesFrom_SkipMentions(fs, i, dot) ==
  IF i > Len(fs) THEN dot
  ELSE LET name == fs[i][1]
           s == fs[i][2]
           d == fs[i][3]
           di == fs[i][4]
       IN IF name = "mentions" THEN CompleteEdgesFrom_SkipMentions(fs, i + 1, dot)
          ELSE IF Falsy(d) THEN CompleteEdgesFrom_SkipMentions(fs, i + 1, dot)
          ELSE CompleteEdgesFrom_SkipMentions(fs, i + 1,
                 edge(node(node(dot, s, s, "ellipse"), d, d, "ellipse"),
                      s, d, name, IF di THEN "both" ELSE "forward"))

\* ... and the loop over dm.facts.
RECURSIVE CompleteEdgesFrom(_, _, _)
CompleteEdgesFrom(fs, i, dot) ==
  IF i > Len(fs) THEN dot
  ELSE LET name == fs[i][1]
           s == fs[i][2]
           d == fs[i][3]
           di == fs[i][4]
       IN IF Falsy(d) THEN CompleteEdgesFrom(fs, i + 1, dot)
          ELSE CompleteEdgesFrom(fs, i + 1,
                 edge(node(node(dot, s, s, "ellipse"), d, d, "ellipse"),
                      s, d, name, IF di THEN "both" ELSE "forward"))

\* ------------------------------------------------------------------------
\* State.
\* ------------------------------------------------------------------------
VARIABLES
  pc,        \* where run() stands: "idle" is before a run and after its return
  runs,      \* invocations of run() started so far
  args,      \* the parsed command line: is parent_id / dump_source given
  dm,        \* the DataModel of the current run
  cache,     \* the file cache.dat: present or not, and the pickled DataModel
  cache0,    \* cache.dat as it was when the current run started
  events,    \* the requests, prints, file writes, renders and uploads of the run
  double,    \* the "Double edge facts" graph
  single,    \* the "Single edge facts" graph
  complete,  \* the "All Double edge facts" graph
  seen,      \* what each `for fact in dm.facts` loop of the run was given
  eqres,     \* the outcome of old_dm == dm
  objres,    \* the outcome of iterating dm.objects
  resp,      \* the answers of the server to the two requests of the run
  prev       \* the DataModel the previous run ended with

vars == <<pc, runs, args, dm, cache, cache0, events, double, single, complete,
          seen, eqres, objres, resp, prev>>

\* ------------------------------------------------------------------------
\* Input domains.
\* ------------------------------------------------------------------------
FailureStatuses == {404, 500}

Response(code, body) == [status_code |-> code, json |-> body]

\* Catalog bodies of the pipeline runs: the same catalog listed in another
\* order and with repeated entries, a changed catalog, an empty catalog.
RunObjectBodies ==
  { Payload(<<>>),
    Payload(<<Named("host"), Named("ip")>>),
    Payload(<<Named("ip"), NullEntry, Named("host"), Named("ip")>>),
    Payload(<<Named("host"), Named("url")>>) }

RunFactBodies ==
  { Payload(<<>>),
    Payload(<<Fact("resolvesTo", <<Binding("host", Type("ip"), FALSE)>>),
              Fact("mentions", <<Binding("url", Type("host"), TRUE),
                                 Binding("host", NullType, FALSE)>>)>>),
    Payload(<<Fact("mentions", <<Binding("host", NullType, FALSE),
                                 Binding("url", Type("host"), TRUE)>>),
              NullFact,
              Fact("resolvesTo", <<Binding("host", Type("ip"), FALSE),
                                   Binding("host", Type("ip"), FALSE)>>)>>),
    Payload(<<Fact("resolvesTo", <<Binding("host", Type("ip"), TRUE)>>)>>) }

ObjectResponses ==
  {Response(HTTP_OK, b) : b \in RunObjectBodies}
    \cup {Response(c, Unavailable) : c \in FailureStatuses}

FactResponses ==
  {Response(HTTP_OK, b) : b \in RunFactBodies}
    \cup {Response(c, Unavailable) : c \in FailureStatuses}

NoCache == [present |-> FALSE, dm |-> NewDataModel]

\* pickle.dump / pickle.load of a DataModel: the instance's attributes.
pickle_dump(obj) == [present |-> TRUE, dm |-> obj]
pickle_load(file) == file.dm

NoResp == <<Response(StatusNone, Unavailable), Response(StatusNone, Unavailable)>>

NoObjRes == [done |-> FALSE, out |-> <<>>, raised |-> FALSE]

\* ------------------------------------------------------------------------
\* run()
\* ------------------------------------------------------------------------
Init ==
  /\ pc = "idle"
  /\ runs = 0
  /\ args = [parent_id |-> FALSE, dump_source |-> FALSE]
  /\ dm = NewDataModel
  /\ cache = NoCache
  /\ cache0 = NoCache
  /\ events = <<>>
  /\ double = Digraph
  /\ single = Digraph
  /\ complete = Digraph
  /\ seen = <<>>
  /\ eqres = "none"
  /\ objres = NoObjRes
  /\ resp = NoResp
  /\ prev = NewDataModel

\* A new process: parse_args() and DataModel(...).
Start ==
  /\ pc = "idle"
  /\ runs < MaxRuns
  /\ runs' = runs + 1
  /\ args' \in [parent_id : BOOLEAN, dump_source : BOOLEAN]
  /\ dm' = NewDataModel
  /\ cache0' = cache
  /\ events' = <<>>
  /\ double' = Digraph
  /\ single' = Digraph
  /\ complete' = Digraph
  /\ seen' = <<>>
  /\ eqres' = "none"
  /\ resp' = NoResp
  /\ prev' = dm
  /\ pc' = "load"
  /\ UNCHANGED <<cache, objres>>

\* dm.load()
Load ==
  /\ pc = "load"
  /\ \E r1 \in ObjectResponses, r2 \in FactResponses :
       LET l == load(dm, r1, r2) IN
       /\ dm' = l.dm
       /\ events' = events \o l.calls
       /\ resp' = <<r1, r2>>
  /\ pc' = "status"
  /\ UNCHANGED <<runs, args, cache, cache0, double, single, complete, seen, eqres, objres, prev>>

\* run() that goes on whatever the status is.
CheckStatus_Ignore ==
  /\ pc = "status"
  /\ events' = events
  /\ pc' = "compare"
  /\ UNCHANGED <<runs, args, dm, cache, cache0, double, single, complete, seen, eqres, objres, resp, prev>>

\* if dm.status != 200: print, return
CheckStatus ==
  /\ pc = "status"
  /\ IF dm.status # HTTP_OK
     THEN /\ events' = Append(events, "print status")
          /\ pc' = "idle"
     ELSE /\ events' = events
          /\ pc' = "compare"
  /\ UNCHANGED <<runs, args, dm, cache, cache0, double, single, complete, seen, eqres, objres, resp, prev>>

\* run() that compares and then graphs all the same.
Compare_NoReturn ==
  /\ pc = "compare"
  /\ IF cache.present
     THEN /\ eqres' = IF DataModel_eq(pickle_load(cache), dm) THEN "equal" ELSE "differ"
          /\ events' = events
     ELSE /\ eqres' = "none"
          /\ events' = Append(events, "print First run")
  /\ pc' = "dump"
  /\ UNCHANGED <<runs, args, dm, cache, cache0, double, single, complete, seen, objres, resp, prev>>

\* try: old_dm = pickle.load(...); if old_dm == dm: return
\* except FileNotFoundError: print("First run")
Compare ==
  /\ pc = "compare"
  /\ IF cache.present
     THEN LET old_dm == pickle_load(cache) IN
          /\ eqres' = IF DataModel_eq(old_dm, dm) THEN "equal" ELSE "differ"
          /\ events' = events
          /\ pc' = IF DataModel_eq(old_dm, dm) THEN "idle" ELSE "dump"
     ELSE /\ eqres' = "none"
          /\ events' = Append(events, "print First run")
          /\ pc' = "dump"
  /\ UNCHANGED <<runs, args, dm, cache, cache0, double, single, complete, seen, objres, resp, prev>>

\* run() that graphs without writing cache.dat.
Dump_NoWrite ==
  /\ pc = "dump"
  /\ events' = events \o <<"print Graphing changes">>
  /\ pc' = "double"
  /\ UNCHANGED <<runs, args, dm, cache, cache0, double, single, complete, seen, eqres, objres, resp, prev>>

\* print("Graphing changes"); pickle.dump(dm, open("cache.dat", "wb"))
Dump ==
  /\ pc = "dump"
  /\ cache' = pickle_dump(dm)
  /\ events' = events \o <<"print Graphing changes", "dump cache.dat">>
  /\ pc' = "double"
  /\ UNCHANGED <<runs, args, dm, cache0, double, single, complete, seen, eqres, objres, resp, prev>>

\* What writing the source (if asked for) and rendering a graph adds to the log.
Rendered(name) ==
  (IF args.dump_source THEN <<"write " \o name \o ".dot">> ELSE <<>>)
    \o <<"render " \o name>>

GraphDouble ==
  /\ pc = "double"
  /\ double' = DoubleEdgeFrom(facts(dm), 1, Digraph)
  /\ seen' = Append(seen, facts(dm))
  /\ events' = events \o Rendered("double")
  /\ pc' = "single"
  /\ UNCHANGED <<runs, args, dm, cache, cache0, single, complete, eqres, objres, resp, prev>>

GraphSingle ==
  /\ pc = "single"
  /\ single' = SingleEdgeFrom(facts(dm), 1, Digraph)
  /\ seen' = Append(seen, facts(dm))
  /\ events' = events \o Rendered("single")
  /\ pc' = "complete"
  /\ UNCHANGED <<runs, args, dm, cache, cache0, double, complete, eqres, objres, resp, prev>>

GraphComplete ==
  /\ pc = "complete"
  /\ complete' = CompleteEdgesFrom(facts(dm), 1,
                   CompleteNodesFrom(objects(dm).out, 1, Digraph))
  /\ seen' = Append(seen, facts(dm))
  /\ events' = events \o Rendered("complete")
  /\ pc' = "upload"
  /\ UNCHANGED <<runs, args, dm, cache, cache0, double, single, eqres, objres, resp, prev>>

\* if args.parent_id: attach the three images, and the sources if dumped.
Upload ==
  /\ pc = "upload"
  /\ events' = events
       \o (IF args.parent_id
           THEN <<"attach double", "attach single", "attach complete">>
                  \o (IF args.dump_source
                      THEN <<"attach complete.dot", "attach double.dot", "attach single.dot">>
                      ELSE <<>>)
           ELSE <<>>)
  /\ pc' = "idle"
  /\ UNCHANGED <<runs, args, dm, cache, cache0, double, single, complete, seen, eqres, objres, resp, prev>>

Next ==
  \/ Start
  \/ Load
  \/ CheckStatus
  \/ Compare
  \/ Dump
  \/ GraphDouble
  \/ GraphSingle
  \/ GraphComplete
  \/ Upload

Spec == Init /\ [][Next]_vars

\* ------------------------------------------------------------------------
\* The views and the comparison of DataModel, and the graph loops of run(),
\* from any model: the same steps, started from every model of a bounded
\* domain instead of from a fetch.
\* ------------------------------------------------------------------------

\* for obj in dm.objects, run to its end.
IterateObjects ==
  /\ pc = "objects"
  /\ objres' = [done |-> TRUE, out |-> objects(dm).out, raised |-> objects(dm).raised]
  /\ pc' = "iterated"
  /\ UNCHANGED <<runs, args, dm, cache, cache0, events, double, single, complete,
                 seen, eqres, resp, prev>>

\* Object-type entries, well formed and not: null, {}, a name, an empty or
\* null name, a dict without "name".
ObjectEntries ==
  {NullEntry, EmptyEntry, Named("host"), Named("ip"), Named(""), Named(None), Nameless}

ObjectBodies ==
  {Unavailable} \cup {Payload(d) : d \in SeqsUpTo(ObjectEntries, MaxObjs)}

Loaded(o, f) == [status |-> HTTP_OK, _objects |-> o, _facts |-> f]

\* The state run() is in at `where`, its model being m and cache.dat being c.
At(where, m, c) ==
  /\ pc = where
  /\ runs = 1
  /\ args = [parent_id |-> FALSE, dump_source |-> FALSE]
  /\ dm = m
  /\ cache = c
  /\ cache0 = c
  /\ events = <<>>
  /\ double = Digraph
  /\ single = Digraph
  /\ complete = Digraph
  /\ seen = <<>>
  /\ eqres = "none"
  /\ objres = NoObjRes
  /\ resp = NoResp
  /\ prev = NewDataModel

InitObjects == \E o \in ObjectBodies : At("objects", Loaded(o, Payload(<<>>)), NoCache)

SpecObjects == InitObjects /\ [][IterateObjects]_vars

\* Fact payloads by size: an entry weighs one plus the number of its bindings.
BindingPool ==
  { Binding("host", Type("ip"), FALSE),
    Binding("ip", Type("host"), TRUE),
    Binding("host", NullType, FALSE) }

FactNames == {"mentions", "resolvesTo"}

FactEntries(w) ==
  IF w = 1 THEN {NullFact} \cup {Fact(n, <<>>) : n \in FactNames}
  ELSE {Fact(n, bs) : n \in FactNames, bs \in [1..(w - 1) -> BindingPool]}

RECURSIVE FactData(_)
FactData(n) ==
  {<<>>} \cup UNION {{<<e>> \o rest : e \in FactEntries(w), rest \in FactData(n - w)} :
                      w \in 1..n}

FactBodies == {Unavailable} \cup {Payload(d) : d \in FactData(MaxSize)}

\* Object payloads of the graphs: an isolated type, a type the facts use, null.
GraphObjectBodies ==
  {Unavailable}
    \cup {Payload(d) : d \in SeqsUpTo({NullEntry, Named("url"), Named("host")}, MaxGraphObjs)}

InitGraph ==
  \E o \in GraphObjectBodies, f \in FactBodies :
    At("double", Loaded(o, f), pickle_dump(Loaded(o, f)))

NextGraph ==
  \/ GraphDouble
  \/ GraphSingle
  \/ GraphComplete

SpecGraph == InitGraph /\ [][NextGraph]_vars

\* Models to compare: catalogs that list the same names and bindings in
\* another order, repeated, or split over entries differently.
EqObjectBodies ==
  {Unavailable} \cup {Payload(d) : d \in SeqsUpTo({Named("host"), Named("ip")}, MaxEqObjs)}

EqFactPool ==
  { Fact("resolvesTo", <<Binding("host", Type("ip"), FALSE)>>),
    Fact("resolvesTo", <<Binding("host", NullType, FALSE)>>),
    Fact("resolvesTo", <<Binding("host", NullType, FALSE),
                         Binding("host", Type("ip"), FALSE)>>) }

EqFactBodies ==
  {Unavailable} \cup {Payload(d) : d \in SeqsUpTo(EqFactPool, MaxEqFacts)}

EqModels ==
  {Loaded(o, f) : o \in EqObjectBodies, f \in EqFactBodies}
    \cup {[status |-> 500, _objects |-> Unavailable, _facts |-> Unavailable]}

InitEq == \E a \in EqModels, b \in EqModels : At("compare", b, pickle_dump(a))

SpecEq == InitEq /\ [][Compare]_vars

\* ------------------------------------------------------------------------
\* Vocabulary of the properties.
\* ------------------------------------------------------------------------

\* The event e is in the log of the run.
Logged(e) == \E i \in DOMAIN events : events[i] = e

\* The place of the first e in the log, 0 when it is not there.
FirstAt(e) == IF Logged(e) THEN CHOOSE i \in DOMAIN events :
                                  events[i] = e /\ \A j \in 1..(i - 1) : events[j] # e
              ELSE 0

GraphEvents ==
  { "print Graphing changes", "dump cache.dat",
    "write double.dot", "render double", "write single.dot", "render single",
    "write complete.dot", "render complete",
    "attach double", "attach single", "attach complete",
    "attach complete.dot", "attach double.dot", "attach single.dot" }

\* No snapshot written, no graph built, nothing rendered or uploaded.
NoGraphWork ==
  /\ double = Digraph
  /\ single = Digraph
  /\ complete = Digraph
  /\ seen = <<>>
  /\ \A i \in DOMAIN events : events[i] \notin GraphEvents

\* Both payloads are None.
Poisoned(m) == ~m._objects.avail /\ ~m._facts.avail

\* The names a payload lists, read off the payload: the name of every entry
\* that is a non-empty dict.
NameSet(m) ==
  IF ~m._objects.avail THEN {}
  ELSE {m._objects.data[i].name :
          i \in {k \in DOMAIN m._objects.data : ~NotEntry(m._objects.data[k])}}

\* The places <<i, j>> of the bindings of a fact payload.
BindingPlaces(m) ==
  IF ~m._facts.avail THEN {}
  ELSE UNION {{<<i, j>> : j \in DOMAIN m._facts.data[i].relevantObjectBindings} :
                i \in {k \in DOMAIN m._facts.data : ~m._facts.data[k].null}}

\* The tuple of the binding at a place.
TupleAt(m, p) ==
  LET fact == m._facts.data[p[1]]
      b == fact.relevantObjectBindings[p[2]]
  IN <<fact.name, b.sourceObjectType.name,
       IF b.destinationObjectType.null THEN None ELSE b.destinationObjectType.name,
       b.bidirectionalBinding>>

\* The fact bindings a payload lists, as a set.
TupleSet(m) == {TupleAt(m, p) : p \in BindingPlaces(m)}

\* Same object names and same fact bindings, order and repetition aside.
SameModel(a, b) == NameSet(a) = NameSet(b) /\ TupleSet(a) = TupleSet(b)

\* The run has loaded with status 200 and is past the comparison.
PastCompare ==
  /\ runs > 0
  /\ dm.status = HTTP_OK
  /\ pc \notin {"load", "status", "compare"}

\* ------------------------------------------------------------------------
\* Properties of load() and of the change detection of run().
\* ------------------------------------------------------------------------

\* C1: after load(), a non-200 status of either request leaves both payloads
\* None (objects and facts both yield nothing) and status is the status of the
\* first failing request; the factType request is not made when the objectType
\* request fails; both payloads are held, with status 200, exactly when both
\* requests return 200.
C1_LoadAllOrNothing ==
  resp # NoResp =>
    LET r1 == resp[1]
        r2 == resp[2]
        empty == /\ Poisoned(dm)
                 /\ objects(dm) = [out |-> <<>>, raised |-> FALSE]
                 /\ facts(dm) = <<>>
    IN /\ r1.status_code # HTTP_OK =>
            /\ empty
            /\ dm.status = r1.status_code
            /\ ~Logged("factType")
       /\ (r1.status_code = HTTP_OK /\ r2.status_code # HTTP_OK) =>
            /\ empty
            /\ dm.status = r2.status_code
            /\ Logged("factType")
       /\ (r1.status_code = HTTP_OK /\ r2.status_code = HTTP_OK) =>
            /\ dm._objects = r1.json
            /\ dm._facts = r2.json
            /\ dm.status = HTTP_OK
       /\ dm.status = HTTP_OK <=> (r1.status_code = HTTP_OK /\ r2.status_code = HTTP_OK)
       /\ Logged("objectType")

\* The objectType request returned a non-empty catalog, the factType request
\* failed, and load() has returned.
C1_Witness ==
  /\ pc = "status"
  /\ resp[1].status_code = HTTP_OK
  /\ resp[1].json.data # <<>>
  /\ resp[2].status_code = 500
  /\ dm.status = 500

\* C2: a run whose fetch ends with a status other than 200 writes no snapshot
\* and generates no graph, cache.dat is what it was when the run started, and
\* the stored snapshot is always a model loaded with status 200.
C2_NoSnapshotOnFailure ==
  /\ (runs > 0 /\ pc # "load" /\ dm.status # HTTP_OK) =>
        /\ cache = cache0
        /\ NoGraphWork
        /\ pc \in {"status", "idle"}
  /\ cache.present =>
        /\ cache.dm.status = HTTP_OK
        /\ cache.dm._objects \in RunObjectBodies
        /\ cache.dm._facts \in RunFactBodies

\* A failed run has returned and the snapshot of an earlier run is still there.
C2_Witness ==
  /\ pc = "idle"
  /\ runs = 2
  /\ dm.status = 404
  /\ resp[1].status_code = HTTP_OK
  /\ cache.present
  /\ cache = cache0
  /\ Logged("print status")

\* C3: a run that loaded with status 200 and finds a snapshot equal to the
\* fetched model (same set of object names, same set of fact bindings) returns
\* with no graph, no render, no upload and cache.dat unchanged; so does a run
\* that gets the payloads the previous, successful run got.
C3_UnchangedStops ==
  /\ (PastCompare /\ cache0.present /\ SameModel(pickle_load(cache0), dm)) =>
        /\ pc = "idle"
        /\ cache = cache0
        /\ NoGraphWork
  /\ (PastCompare /\ prev.status = HTTP_OK
        /\ prev._objects = dm._objects /\ prev._facts = dm._facts) =>
        /\ pc = "idle"
        /\ cache = cache0
        /\ NoGraphWork

\* A run with upload asked for has returned at the comparison, the snapshot
\* listing the same catalog in another order.
C3_Witness ==
  /\ pc = "idle"
  /\ eqres = "equal"
  /\ args.parent_id
  /\ cache0.present
  /\ cache0.dm._objects # dm._objects
  /\ cache0.dm._facts # dm._facts
  /\ facts(dm) # <<>>

\* C4: a run that loaded with status 200 and finds no snapshot, or a snapshot
\* that differs from the fetched model, writes the fetched model to cache.dat
\* and then renders the three graphs; cache.dat is written before the first
\* render.
C4_ChangedPersistsThenGraphs ==
  /\ (PastCompare /\ (~cache0.present \/ ~SameModel(pickle_load(cache0), dm))) =>
        /\ pc \in {"dump", "double", "single", "complete", "upload", "idle"}
        /\ pc # "dump" => cache = pickle_dump(dm) /\ Logged("dump cache.dat")
        /\ pc = "idle" =>
              /\ Len(seen) = 3
              /\ 0 < FirstAt("dump cache.dat")
              /\ FirstAt("dump cache.dat") < FirstAt("render double")
              /\ FirstAt("render double") < FirstAt("render single")
              /\ FirstAt("render single") < FirstAt("render complete")
        /\ pc # "idle" => ENABLED Next
  /\ \A i \in DOMAIN events :
        events[i] \in GraphEvents \ {"print Graphing changes", "dump cache.dat"} =>
          \E j \in 1..(i - 1) : events[j] = "dump cache.dat"

\* A second run found a snapshot that differs, replaced it and rendered the
\* three graphs.
C4_Witness ==
  /\ pc = "idle"
  /\ eqres = "differ"
  /\ cache0.present
  /\ cache # cache0
  /\ cache = pickle_dump(dm)
  /\ Logged("render complete")

\* The first run of all, with an empty catalog, wrote the snapshot and
\* rendered the three graphs.
C4_FirstRunWitness ==
  /\ pc = "idle"
  /\ runs = 1
  /\ ~cache0.present
  /\ dm._objects = Payload(<<>>)
  /\ dm._facts = Payload(<<>>)
  /\ cache = pickle_dump(dm)
  /\ Logged("print First run")
  /\ Logged("render complete")

\* ------------------------------------------------------------------------
\* Properties of the views and of the comparison.
\* ------------------------------------------------------------------------

\* C5: old_dm == dm holds exactly when the two payloads list the same set of
\* object names and the same set of fact bindings, whatever the order and the
\* repetitions; a model equals itself.
C5_EqIsSetEquality ==
  eqres # "none" =>
    /\ eqres = "equal" <=> SameModel(pickle_load(cache), dm)
    /\ pickle_load(cache) = dm => eqres = "equal"

\* Two models compared equal whose payloads differ in both catalogs, the
\* fact bindings split over the entries differently and repeated.
C5_Witness ==
  /\ eqres = "equal"
  /\ cache.dm._objects.avail
  /\ dm._objects.avail
  /\ Len(cache.dm._objects.data) = 2
  /\ cache.dm._objects.data[1] # cache.dm._objects.data[2]
  /\ cache.dm._objects # dm._objects
  /\ Len(facts(cache.dm)) # Len(facts(dm))
  /\ Len(facts(dm)) = 2

\* The entries of an object payload before the first non-empty dict that has
\* no "name", which is where obj["name"] raises.
FirstNameless(data) ==
  IF \E i \in DOMAIN data : ~NotEntry(data[i]) /\ "name" \notin data[i].keys
  THEN CHOOSE i \in DOMAIN data :
         /\ ~NotEntry(data[i]) /\ "name" \notin data[i].keys
         /\ \A j \in 1..(i - 1) : NotEntry(data[j]) \/ "name" \in data[j].keys
  ELSE Len(data) + 1

NamesOf(entries) == [i \in DOMAIN entries |-> entries[i].name]

\* C6 as stated: objects() never raises and yields the name of every entry,
\* in order, except the entries whose name is missing or falsy.
C6_AsStated ==
  objres.done =>
    /\ ~objres.raised
    /\ objres.out =
         IF ~dm._objects.avail THEN <<>>
         ELSE NamesOf(SelectSeq(dm._objects.data,
                LAMBDA e : "name" \in e.keys /\ ~Falsy(e.name)))

\* C6 amended: with an unavailable payload objects() yields nothing and does
\* not raise; an entry that is itself null or empty is skipped; the value
\* under "name" of every other entry is yielded, in order, falsy or not; a
\* non-empty entry without "name" raises, after the names before it.
C6_SkipsEmptyEntries ==
  objres.done =>
    IF ~dm._objects.avail THEN objres.out = <<>> /\ ~objres.raised
    ELSE LET data == dm._objects.data
             k == FirstNameless(data)
         IN /\ objres.raised <=> k <= Len(data)
            /\ objres.out =
                 NamesOf(SelectSeq(SubSeq(data, 1, k - 1), LAMBDA e : ~NotEntry(e)))

\* A payload with a null entry, an entry with an empty name and a named entry
\* has been iterated: the empty name was yielded, the null entry was not.
C6_Witness ==
  /\ objres.done
  /\ ~objres.raised
  /\ dm._objects.avail
  /\ dm._objects.data = <<NullEntry, Named(""), Named("host")>>
  /\ objres.out = <<"", "host">>

\* The number of tuples a fact entry stands for.
Count(fact) == IF fact.null THEN 0 ELSE Len(fact.relevantObjectBindings)

\* The number of tuples the entries before the i-th stand for.
RECURSIVE Before(_, _)
Before(data, i) == IF i <= 1 THEN 0 ELSE Before(data, i - 1) + Count(data[i - 1])

\* The tuples of a model in payload order, read off the payload.
ExpectedTuples(m) ==
  IF ~m._facts.avail THEN <<>>
  ELSE LET data == m._facts.data IN
       [k \in 1..Before(data, Len(data) + 1) |->
          TupleAt(m, CHOOSE p \in BindingPlaces(m) : Before(data, p[1]) + p[2] = k)]

NodeNames(dot) == {dot[i].name : i \in {k \in DOMAIN dot : dot[k].kind = "node"}}

Edges(dot) == SelectSeq(dot, LAMBDA st : st.kind = "edge")

\* The edge a binding with a destination is drawn as.
EdgeOf(t) ==
  [kind |-> "edge", name |-> None, label |-> t[1], shape |-> None,
   tail |-> t[2], head |-> t[3], dir |-> IF t[4] THEN "both" ELSE "forward"]

EdgesOf(ts) == [k \in DOMAIN ts |-> EdgeOf(ts[k])]

Ends(ts) == {ts[k][2] : k \in DOMAIN ts} \cup {ts[k][3] : k \in DOMAIN ts}

Binary(ts) == SelectSeq(ts, LAMBDA t : t[3] # None)

Unary(ts) == SelectSeq(ts, LAMBDA t : t[3] = None)

NotMentions(ts) == SelectSeq(ts, LAMBDA t : t[1] # "mentions")

\* Every node statement of the graph has the node's name as label.
SelfLabelled(dot) ==
  \A i \in DOMAIN dot : dot[i].kind = "node" => dot[i].label = dot[i].name

\* C8: the edges of the double-edge graph are, in payload order and without
\* de-duplication, one per binding that has a destination and whose fact is
\* not "mentions", from source to destination, labelled with the fact name,
\* both-ended iff bidirectional; its nodes are the ends of those bindings;
\* with no such binding the graph is empty.
C8_DoubleEdgeGraph ==
  pc \in {"single", "complete", "upload"} =>
    LET ts == NotMentions(Binary(ExpectedTuples(dm))) IN
    /\ Edges(double) = EdgesOf(ts)
    /\ NodeNames(double) = Ends(ts)
    /\ SelfLabelled(double)
    /\ ts = <<>> => double = Digraph

\* The double-edge graph has two equal edges, from two bindings of one fact
\* between the same two types.
C8_Witness ==
  /\ pc = "single"
  /\ Len(Edges(double)) = 2
  /\ Edges(double)[1] = Edges(double)[2]
  /\ Edges(double)[1].dir = "forward"
  /\ NodeNames(double) = {"host", "ip"}

\* The statements a binding without destination adds to the single-edge graph.
UnaryStatements(t) ==
  << [kind |-> "node", name |-> t[1], label |-> t[1], shape |-> "diamond",
      tail |-> None, head |-> None, dir |-> None],
     [kind |-> "node", name |-> t[2], label |-> t[2], shape |-> "ellipse",
      tail |-> None, head |-> None, dir |-> None],
     [kind |-> "edge", name |-> None, label |-> None, shape |-> None,
      tail |-> t[2], head |-> t[1], dir |-> "forward"] >>

\* C9: a binding without destination gives no edge of the double-edge or of
\* the complete graph, and gives the single-edge graph a diamond node named
\* after the fact, a node for the source type and a directed edge from the
\* source node to the fact node; a binding with a destination gives the
\* single-edge graph nothing.
C9_UnaryBindingsPartition ==
  pc = "upload" =>
    LET ts == ExpectedTuples(dm)
        us == Unary(ts)
    IN /\ Len(single) = 3 * Len(us)
       /\ \A k \in DOMAIN us :
            SubSeq(single, 3 * k - 2, 3 * k) = UnaryStatements(us[k])
       /\ \A i \in DOMAIN double : double[i].kind = "edge" => double[i].head # None
       /\ \A i \in DOMAIN complete : complete[i].kind = "edge" => complete[i].head # None
       /\ Len(Edges(complete)) + Len(us) = Len(ts)
       /\ Len(Edges(double)) <= Len(Edges(complete))

\* A payload with a "mentions" binding without destination and a binding
\* with a destination has been graphed.
C9_Witness ==
  /\ pc = "upload"
  /\ Len(ExpectedTuples(dm)) = 2
  /\ \E k \in 1..2 : ExpectedTuples(dm)[k] = <<"mentions", "host", None, FALSE>>
  /\ Len(Edges(single)) = 1
  /\ Len(Edges(complete)) = 1

\* C10: the nodes of the complete graph are the names objects() yields and
\* the ends of every binding with a destination; its edges are one per
\* binding with a destination, "mentions" included; they are the edges of
\* the double-edge graph plus the "mentions" edges.
C10_CompleteGraph ==
  pc = "upload" =>
    LET ts == Binary(ExpectedTuples(dm)) IN
    /\ Edges(complete) = EdgesOf(ts)
    /\ NodeNames(complete) = NameSet(dm) \cup Ends(ts)
    /\ SelfLabelled(complete)
    /\ Edges(double) = SelectSeq(Edges(complete), LAMBDA e : e.label # "mentions")
    /\ Len(Edges(complete)) =
         Len(Edges(double)) + Len(SelectSeq(ts, LAMBDA t : t[1] = "mentions"))

\* A "mentions" binding and another binding, both with a destination, and an
\* object type no binding uses: the complete graph has both edges and the
\* isolated node, the double-edge graph has one edge.
C10_Witness ==
  /\ pc = "upload"
  /\ Len(Edges(complete)) = 2
  /\ Len(Edges(double)) = 1
  /\ \E i \in 1..2 : Edges(complete)[i].label = "mentions"
  /\ "url" \in NodeNames(complete)
  /\ "url" \notin NodeNames(double)

====
